---- MODULE Spec2Model ----
(***************************************************************************)
(* A model of ctd2xray/cchdo.py: the interpolation/alignment pipeline for  *)
(* CCHDO hydrographic casts (interp_coordinate, rename_0d_coords,          *)
(* _maybe_add_time_coord, attribute_to_time_variable, compose and          *)
(* open_cchdo_as_mfdataset).                                               *)
(*                                                                         *)
(* A dataset is a record                                                   *)
(*   [names : the variable names in insertion order,                       *)
(*    vars  : name -> [dims, values, coord, attrs],                        *)
(*    attrs : the global attributes, a set of <<key, value>> pairs]        *)
(* A variable's values are a sequence (one dimension) or a sequence of     *)
(* rows (two dimensions, axis 0 the outer one).  Numbers are exact         *)
(* rationals <<num, den>> with den > 0 and in lowest terms; <<0, 0>> is    *)
(* not-a-number.  Floating-point rounding is not modelled.                 *)
(***************************************************************************)
EXTENDS Integers, Sequences, FiniteSets, TLC

VARIABLES
    pc,       \* where the caller of the modelled functions stands
    inp,      \* the arguments the caller passes
    ds,       \* the dataset (or, for compose, the value) the caller holds
    raised,   \* the exception the last call raised, "none" when it returned
    calls,    \* the calls made so far: what went in, what came out
    datasets  \* open_mfdataset's list of the datasets it has opened

vars == <<pc, inp, ds, raised, calls, datasets>>

(***************************************************************************)
(* Bounds of the model.                                                    *)
(***************************************************************************)
MaxCoord == 2      \* source coordinate values are drawn from 0..MaxCoord
MaxVal == 1        \* data values are drawn from 0..MaxVal
MaxTargets == 2    \* at most this many target values
MaxFunctions == 3  \* compose is handed at most this many functions
MaxArg == 2        \* the composed function is applied to -MaxArg..MaxArg
MaxFiles == 2      \* open_cchdo_as_mfdataset is handed at most this many files

(***************************************************************************)
(* Exact rational arithmetic with not-a-number.                            *)
(***************************************************************************)
NaN == <<0, 0>>

IsNaN(r) == r[2] = 0

Abs(n) == IF n < 0 THEN -n ELSE n

RECURSIVE GCD(_, _)
GCD(a, b) == IF b = 0 THEN a ELSE GCD(b, a % b)

RNorm(n, d) == LET g == GCD(Abs(n), d) IN <<n \div g, d \div g>>

R(n) == <<n, 1>>

RAdd(a, b) == IF IsNaN(a) \/ IsNaN(b) THEN NaN
              ELSE RNorm(a[1] * b[2] + b[1] * a[2], a[2] * b[2])

RSub(a, b) == IF IsNaN(a) \/ IsNaN(b) THEN NaN
              ELSE RNorm(a[1] * b[2] - b[1] * a[2], a[2] * b[2])

RMul(a, b) == IF IsNaN(a) \/ IsNaN(b) THEN NaN
              ELSE RNorm(a[1] * b[1], a[2] * b[2])

\* a / b for b > 0
RDiv(a, b) == IF IsNaN(a) \/ IsNaN(b) THEN NaN
              ELSE RNorm(a[1] * b[2], a[2] * b[1])

RLess(a, b) == a[1] * b[2] < b[1] * a[2]

(***************************************************************************)
(* Sequences.                                                              *)
(***************************************************************************)
Range(s) == {s[i] : i \in 1..Len(s)}

IndexOf(s, e) == CHOOSE i \in 1..Len(s) : s[i] = e /\ \A j \in 1..(i - 1) : s[j] # e

Remove(s, e) == SelectSeq(s, LAMBDA n : n # e)

Reverse(s) == [i \in 1..Len(s) |-> s[Len(s) + 1 - i]]

RECURSIVE SeqsOver(_, _)
SeqsOver(S, n) == IF n = 0 THEN {<<>>}
                  ELSE {Append(s, e) : s \in SeqsOver(S, n - 1), e \in S}

Increasing(s) == \A i \in 1..(Len(s) - 1) : s[i] < s[i + 1]

(***************************************************************************)
(* The xarray dataset operations the source uses.                          *)
(***************************************************************************)
Var(dims, values, coord, attrs) ==
    [dims |-> dims, values |-> values, coord |-> coord, attrs |-> attrs]

EmptyDs == [names |-> <<>>, vars |-> [n \in {} |-> 0], attrs |-> {}]

Has(d, name) == name \in Range(d.names)

\* ds.dims: the names of the dimensions any variable uses
Dims(d) == UNION {Range(d.vars[n].dims) : n \in Range(d.names)}

\* ds.data_vars: the variables that are not coordinates, in insertion order
DataVars(d) == SelectSeq(d.names, LAMBDA n : ~d.vars[n].coord)

\* the variable is put at its name, a new name going to the end
Put(d, name, v) ==
    [d EXCEPT !.names = IF Has(d, name) THEN @ ELSE Append(@, name),
              !.vars = (name :> v) @@ @]

\* Drop with a fault: the dataset ds.drop returns is thrown away
DropDiscarded(d, name) == d

\* ds.drop(name): the variable goes, and with it every variable that uses
\* a dimension of that name
Drop(d, name) ==
    LET gone == {n \in Range(d.names) : n = name \/ name \in Range(d.vars[n].dims)}
    IN [d EXCEPT !.names = SelectSeq(@, LAMBDA n : n \notin gone),
                 !.vars = [n \in (DOMAIN @) \ gone |-> @[n]]]

(***************************************************************************)
(* scipy.interpolate.interp1d(x, y, axis, bounds_error) evaluated at xnew, *)
(* kind "linear", fill value not-a-number.  x is strictly increasing here, *)
(* so the sort interp1d starts with changes nothing.                       *)
(***************************************************************************)
\* numpy.searchsorted(x, t): how many entries of x are below t
SearchSorted(x, t) == Cardinality({i \in 1..Len(x) : RLess(x[i], t)})

Clip(n, lo, hi) == IF n < lo THEN lo ELSE IF n > hi THEN hi ELSE n

BelowBounds(x, t) == RLess(t, x[1])

AboveBounds(x, t) == RLess(x[Len(x)], t)

\* one target on one line of values: the segment's line through (x_lo, y_lo)
\* and (x_hi, y_hi), then the fill value outside [x[1], x[Len(x)]]
LinearFilled(x, y, t) ==
    LET hi == Clip(SearchSorted(x, t), 1, Len(x) - 1) + 1
        lo == hi - 1
        slope == RDiv(RSub(y[hi], y[lo]), RSub(x[hi], x[lo]))
        y_new == RAdd(RMul(slope, RSub(t, x[lo])), y[lo])
    IN IF BelowBounds(x, t) \/ AboveBounds(x, t) THEN NaN ELSE y_new

Interp1(x, y, xnew) == [k \in 1..Len(xnew) |-> LinearFilled(x, y, xnew[k])]

Column(rows, c) == [r \in 1..Len(rows) |-> rows[r][c]]

\* the size of the values along an axis (1 or 2) of a variable of ndim dimensions
SizeAlong(values, ndim, axis) ==
    IF ndim = 1 \/ axis = 1 THEN Len(values)
    ELSE IF values = <<>> THEN 0 ELSE Len(values[1])

\* i(xnew): the interpolation runs along the axis, once per line of values
InterpAlong(x, values, ndim, axis, xnew) ==
    IF ndim = 1 THEN Interp1(x, values, xnew)
    ELSE IF axis = 2 THEN [r \in 1..Len(values) |-> Interp1(x, values[r], xnew)]
    ELSE [k \in 1..Len(xnew) |->
             [c \in 1..Len(values[1]) |-> Interp1(x, Column(values, c), xnew)[k]]]

\* Interp1dRaises with a fault: interp_kwargs is not handed to interp1d,
\* whose own default is bounds_error=True
Interp1dRaisesByDefault(x, values, ndim, axis, xnew, bounds_error) ==
    IF Len(x) # SizeAlong(values, ndim, axis) THEN "ValueError"
    ELSE IF \E k \in 1..Len(xnew) :
                BelowBounds(x, xnew[k]) \/ AboveBounds(x, xnew[k])
    THEN "ValueError"
    ELSE "none"

\* the error interp1d raises, "none" when it raises none
Interp1dRaises(x, values, ndim, axis, xnew, bounds_error) ==
    IF Len(x) # SizeAlong(values, ndim, axis) THEN "ValueError"
    ELSE IF bounds_error /\ \E k \in 1..Len(xnew) :
                BelowBounds(x, xnew[k]) \/ AboveBounds(x, xnew[k])
    THEN "ValueError"
    ELSE "none"

(***************************************************************************)
(* ds[name] = DataArray(values, dims=dims, coords=coords): the array's     *)
(* coordinates are merged into the dataset (a coordinate the dataset has   *)
(* under the same name must agree), then the array is stored under name.   *)
(***************************************************************************)
RECURSIVE MergeCoords(_, _, _)
MergeCoords(st, dims, coords) ==
    IF dims = <<>> \/ st.raised # "none" THEN st
    ELSE LET dim == Head(dims)
             cv == Var(<<dim>>, coords[dim].values, TRUE, coords[dim].attrs)
         IN IF ~Has(st.ds, dim)
            THEN MergeCoords([st EXCEPT !.ds = Put(@, dim, cv)], Tail(dims), coords)
            ELSE IF st.ds.vars[dim].dims = cv.dims /\ st.ds.vars[dim].values = cv.values
            THEN MergeCoords([st EXCEPT !.ds.vars[dim].coord = TRUE], Tail(dims), coords)
            ELSE [st EXCEPT !.raised = "ValueError"]

SetItem(d, name, values, dims, coords) ==
    LET st == MergeCoords([ds |-> d, raised |-> "none"], dims, coords)
    IN IF st.raised # "none" THEN st
       ELSE [st EXCEPT !.ds = Put(@, name, Var(dims, values, FALSE, {}))]

(***************************************************************************)
(* interp_coordinate                                                       *)
(***************************************************************************)
\* lines 82-86: the coordinates of the interpolated variable
NewCoords(d, dims, xnew_name, interp_data) ==
    [dim \in Range(dims) |->
        IF dim = xnew_name THEN [values |-> interp_data, attrs |-> {}]
        ELSE [values |-> d.vars[dim].values, attrs |-> d.vars[dim].attrs]]

\* lines 74-91: the body of the loop for one name of ds.data_vars
InterpOne(st, yname, x, xname, interp_data, drop_original, interp_suffix, interp_kwargs) ==
    IF ~Has(st.ds, yname) THEN [st EXCEPT !.raised = "KeyError"]
    ELSE
    LET y == st.ds.vars[yname]
        xnew_name == xname \o interp_suffix
    IN IF xname \notin Range(y.dims) THEN st
       ELSE
       LET axis == IndexOf(y.dims, xname)
           ndim == Len(y.dims)
           bad == Interp1dRaises(x.values, y.values, ndim, axis, interp_data,
                                 interp_kwargs.bounds_error)
           dims == [y.dims EXCEPT ![axis] = xnew_name]
       IN IF bad # "none" THEN [st EXCEPT !.raised = bad]
          ELSE IF \E dim \in Range(dims) : dim # xnew_name /\ ~Has(st.ds, dim)
          THEN [st EXCEPT !.raised = "KeyError"]
          ELSE
          LET coords == NewCoords(st.ds, dims, xnew_name, interp_data)
              ynew == InterpAlong(x.values, y.values, ndim, axis, interp_data)
              set == SetItem(st.ds, yname \o interp_suffix, ynew, dims, coords)
          IN IF set.raised # "none" THEN set
             ELSE IF drop_original THEN [set EXCEPT !.ds = Drop(@, yname)]
             ELSE set

RECURSIVE InterpLoop(_, _, _, _, _, _, _, _)
InterpLoop(st, ynames, x, xname, interp_data, drop_original, interp_suffix, interp_kwargs) ==
    IF ynames = <<>> \/ st.raised # "none" THEN st
    ELSE InterpLoop(InterpOne(st, Head(ynames), x, xname, interp_data,
                              drop_original, interp_suffix, interp_kwargs),
                    Tail(ynames), x, xname, interp_data, drop_original,
                    interp_suffix, interp_kwargs)

\* the call's outcome: [ds |-> the dataset returned, raised |-> "none"], or
\* raised names the exception and ds is what the dataset had become.  The
\* loop runs over the data variables the dataset held when it began: an
\* assignment gives the dataset a new variable table and leaves the one the
\* loop is iterating as it was.
interp_coordinate(d, interp_coord, interp_data, drop_original, interp_suffix, interp_kwargs) ==
    IF ~Has(d, interp_coord) THEN [ds |-> d, raised |-> "KeyError"]
    ELSE
    LET x == d.vars[interp_coord]
        st == InterpLoop([ds |-> d, raised |-> "none"], DataVars(d), x, interp_coord,
                         interp_data, drop_original, interp_suffix, interp_kwargs)
    IN IF st.raised # "none" THEN st
       ELSE IF drop_original THEN [st EXCEPT !.ds = Drop(@, interp_coord)]
       ELSE st

(***************************************************************************)
(* The casts the interpolator is run on.  The pressure coordinate is any   *)
(* strictly increasing sequence of at least two values of 0..MaxCoord, a   *)
(* variable's values along it any values of 0..MaxVal, and the layout one  *)
(* of Layouts.                                                             *)
(***************************************************************************)
RSeq(s) == [i \in 1..Len(s) |-> R(s[i])]

IncreasingSeqs(S, lo, hi) ==
    {s \in UNION {SeqsOver(S, n) : n \in lo..hi} : Increasing(s)}

PressureValues == IncreasingSeqs(0..MaxCoord, 2, MaxCoord + 1)

TargetValues == IncreasingSeqs(-1..(MaxCoord + 1), 1, MaxTargets)

Layouts == {"one", "two", "station", "time_pressure", "pressure_time",
            "temp_then_temp_i", "temp_i_then_temp", "no_pressure"}

Coord(name, values) == Var(<<name>>, values, TRUE, {})

DataVar(dims, values) == Var(dims, values, FALSE, {})

\* a dataset of the variables vs, a sequence of <<name, variable>>
RECURSIVE MakeDs(_)
MakeDs(vs) ==
    IF vs = <<>> THEN EmptyDs
    ELSE Put(MakeDs(SubSeq(vs, 1, Len(vs) - 1)), vs[Len(vs)][1], vs[Len(vs)][2])

Cast(layout, xs, ys) ==
    LET p == <<"pressure", Coord("pressure", RSeq(xs))>>
        t == <<"time", Coord("time", <<R(0), R(1)>>)>>
        y == RSeq(ys)
        z == Reverse(y)
    IN CASE layout = "one" ->
              MakeDs(<<p, <<"temp", DataVar(<<"pressure">>, y)>> >>)
         [] layout = "two" ->
              MakeDs(<<p, <<"temp", DataVar(<<"pressure">>, y)>>,
                          <<"sal", DataVar(<<"pressure">>, z)>> >>)
         [] layout = "station" ->
              MakeDs(<<p, t, <<"station", DataVar(<<"time">>, <<R(7), R(8)>>)>>,
                             <<"temp", DataVar(<<"pressure">>, y)>> >>)
         [] layout = "time_pressure" ->
              MakeDs(<<t, p, <<"temp", DataVar(<<"time", "pressure">>, <<y, z>>)>> >>)
         [] layout = "pressure_time" ->
              MakeDs(<<p, t, <<"temp", DataVar(<<"pressure", "time">>,
                                               [i \in 1..Len(y) |-> <<y[i], z[i]>>])>> >>)
         [] layout = "temp_then_temp_i" ->
              MakeDs(<<p, <<"temp", DataVar(<<"pressure">>, y)>>,
                          <<"temp_i", DataVar(<<"pressure">>, z)>> >>)
         [] layout = "temp_i_then_temp" ->
              MakeDs(<<p, <<"temp_i", DataVar(<<"pressure">>, z)>>,
                          <<"temp", DataVar(<<"pressure">>, y)>> >>)
         [] layout = "no_pressure" ->
              MakeDs(<<t, <<"station", DataVar(<<"time">>, <<R(7), R(8)>>)>> >>)

\* the defaults of interp_coordinate's keyword arguments
DefaultSuffix == "_i"

DefaultKwargs == [bounds_error |-> FALSE]

InitInterp ==
    /\ pc = "interp"
    /\ \E layout \in Layouts, xs \in PressureValues, data \in TargetValues :
         \E ys \in SeqsOver(0..MaxVal, Len(xs)) :
            /\ ds = Cast(layout, xs, ys)
            /\ inp = [interp_coord |-> "pressure", interp_data |-> RSeq(data)]
    /\ raised = "none"
    /\ calls = <<>>
    /\ datasets = <<>>

\* ds = interp_coordinate(ds, interp_coord, interp_data, drop_original=...):
\* the caller runs the interpolator, a second time on what the first returned
CallInterp(drop_original) ==
    /\ pc = "interp"
    /\ raised = "none"
    /\ Len(calls) < 2
    /\ LET r == interp_coordinate(ds, inp.interp_coord, inp.interp_data,
                                  drop_original, DefaultSuffix, DefaultKwargs)
       IN /\ calls' = Append(calls, [fn |-> "interp_coordinate",
                                     drop_original |-> drop_original,
                                     in |-> ds, out |-> r.ds, raised |-> r.raised])
          /\ raised' = r.raised
          /\ ds' = IF r.raised = "none" THEN r.ds ELSE ds
    /\ UNCHANGED <<pc, inp, datasets>>

NextInterp == \E drop_original \in BOOLEAN : CallInterp(drop_original)

SpecInterp == InitInterp /\ [][NextInterp]_vars

(***************************************************************************)
(* What the claims about the interpolator speak of.                        *)
(***************************************************************************)
\* the data variables of d whose dimensions include dim
DependentVars(d, dim) ==
    {v \in Range(DataVars(d)) : dim \in Range(d.vars[v].dims)}

\* the values of variable v at position k of its axis named dim
Slice(v, dim, k) ==
    IF Len(v.dims) = 1 THEN <<v.values[k]>>
    ELSE IF IndexOf(v.dims, dim) = 1 THEN v.values[k]
    ELSE Column(v.values, k)

InRange(x, t) == ~BelowBounds(x, t) /\ ~AboveBounds(x, t)

\* v of the input is replaced in the output by v + suffix on coord + suffix
ReplacedIn(c, v, coord, suffix, data) ==
    /\ ~Has(c.out, v)
    /\ Has(c.out, v \o suffix)
    /\ c.out.vars[v \o suffix].dims =
          [i \in 1..Len(c.in.vars[v].dims) |->
              IF c.in.vars[v].dims[i] = coord THEN coord \o suffix
              ELSE c.in.vars[v].dims[i]]
    /\ Has(c.out, coord \o suffix)
    /\ c.out.vars[coord \o suffix].coord
    /\ c.out.vars[coord \o suffix].dims = <<coord \o suffix>>
    /\ c.out.vars[coord \o suffix].values = data
    /\ ~Has(c.out, coord)

\* C3: after interp_coordinate(ds, c, targets) with drop_original enabled
\* returns, every data variable v of the input whose dimensions include c is
\* gone, v + suffix is there with c replaced by c + suffix at the same axis,
\* that axis carries the targets, and nothing named c is left.
C3_EveryDependentVariableReplaced ==
    \A i \in 1..Len(calls) :
        (calls[i].drop_original /\ calls[i].raised = "none") =>
            /\ ~Has(calls[i].out, inp.interp_coord)
            /\ \A v \in DependentVars(calls[i].in, inp.interp_coord) :
                  ReplacedIn(calls[i], v, inp.interp_coord, DefaultSuffix, inp.interp_data)

\* the input has a data variable on c whose name is that of another one plus
\* the suffix: the interpolated form of the one lands on the name of the other
NameCollision(d, coord, suffix) ==
    \E v, w \in DependentVars(d, coord) : w = v \o suffix

\* C3 holds of every input whose names do not collide
C3_ReplacedWhenNamesDoNotCollide ==
    \A i \in 1..Len(calls) :
        (/\ calls[i].drop_original
         /\ calls[i].raised = "none"
         /\ ~NameCollision(calls[i].in, inp.interp_coord, DefaultSuffix)) =>
            /\ ~Has(calls[i].out, inp.interp_coord)
            /\ \A v \in DependentVars(calls[i].in, inp.interp_coord) :
                  ReplacedIn(calls[i], v, inp.interp_coord, DefaultSuffix, inp.interp_data)

\* C4 as stated: a second application, with the same coordinate name and
\* targets, to what the first returned, returns its input unchanged.
C4_SecondApplicationChangesNothing ==
    Len(calls) = 2 => (calls[2].raised = "none" /\ calls[2].out = calls[2].in)

\* C4 as amended: the second application returns its input unchanged when
\* drop_original is disabled in both applications; when the first ran with
\* drop_original enabled it removed the coordinate, and the second raises
\* KeyError.
C4_IdempotentOnlyWithoutDrop ==
    Len(calls) = 2 =>
        /\ calls[1].drop_original => calls[2].raised = "KeyError"
        /\ (~calls[1].drop_original /\ ~calls[2].drop_original) =>
              (calls[2].raised = "none" /\ calls[2].out = calls[2].in)

C4_Witness ==
    /\ Len(calls) = 2
    /\ ~calls[1].drop_original /\ ~calls[2].drop_original
    /\ calls[2].raised = "none"
    /\ Has(calls[2].out, "temp_i") /\ Has(calls[2].out, "temp")
    /\ calls[1].out # calls[1].in

\* the targets of data that lie within the range of x, in order
TargetsInRange(x, data) == SelectSeq(data, LAMBDA t : InRange(x, t))

\* how many of the first k targets lie within the range of x
RankInRange(x, data, k) == Len(TargetsInRange(x, SubSeq(data, 1, k)))

\* C5: with the default options interp_coordinate does not raise for a target
\* outside [min, max] of the source coordinate; every interpolated variable
\* holds not-a-number at such a target, and at a target within the range it
\* holds what it holds when the targets outside the range are left out (the
\* comparison is made on an input that does not hold c + suffix yet).
C5_OutOfRangeFillsNaN ==
    \A i \in 1..Len(calls) :
        LET c == calls[i]
            coord == inp.interp_coord
            new == coord \o DefaultSuffix
        IN /\ c.raised # "ValueError"
           /\ (c.raised # "none") => ~Has(c.in, coord)
           /\ (c.raised = "none") =>
                LET x == c.in.vars[coord].values
                    only == interp_coordinate(c.in, coord, TargetsInRange(x, inp.interp_data),
                                              c.drop_original, DefaultSuffix, DefaultKwargs)
                IN \A w \in DependentVars(c.out, new) :
                     \A k \in 1..Len(inp.interp_data) :
                        IF InRange(x, inp.interp_data[k])
                        THEN ~Has(c.in, new) =>
                             /\ only.raised = "none"
                             /\ Has(only.ds, w)
                             /\ Slice(c.out.vars[w], new, k) =
                                  Slice(only.ds.vars[w], new,
                                        RankInRange(x, inp.interp_data, k))
                        ELSE \A j \in 1..Len(Slice(c.out.vars[w], new, k)) :
                                IsNaN(Slice(c.out.vars[w], new, k)[j])

C5_Witness ==
    /\ Len(calls) = 1
    /\ calls[1].raised = "none"
    /\ Has(calls[1].out, "temp_i")
    /\ Len(calls[1].out.vars["temp_i"].dims) = 1
    /\ Len(inp.interp_data) = 2
    /\ BelowBounds(calls[1].in.vars["pressure"].values, inp.interp_data[1])
    /\ InRange(calls[1].in.vars["pressure"].values, inp.interp_data[2])
    /\ IsNaN(calls[1].out.vars["temp_i"].values[1])
    /\ calls[1].out.vars["temp_i"].values[2] = <<1, 2>>

(***************************************************************************)
(* rename_0d_coords                                                        *)
(***************************************************************************)
\* ds.dims lists the dimension names in sorted order
NameOrder == <<"cast", "depth", "latitude", "pressure", "pressure_i", "station",
               "string", "time">>

SortedDims(d) == SelectSeq(NameOrder, LAMBDA n : n \in Dims(d))

\* SameLength with a fault: the lengths are not compared
SameLengthUnchecked(d, dim, new_dim) == TRUE

\* line 114: len(ds[d]) == len(ds[new_dim])
SameLength(d, dim, new_dim) ==
    Len(d.vars[dim].values) = Len(d.vars[new_dim].values)

\* lines 116-123: the coordinate with its values and attributes on new_dim,
\* marked a coordinate, and new_dim's own coordinate rebuilt from its values,
\* both stored over what the dataset held under these names
Reindexed(d, dim, new_dim) ==
    LET oldvar == d.vars[dim]
    IN Put(Put(d, new_dim, Var(<<new_dim>>, d.vars[new_dim].values, TRUE, {})),
           dim, Var(<<new_dim>>, oldvar.values, TRUE, oldvar.attrs))

\* lines 113-123: the body of the loop for one dimension name
RenameOne(st, dim, new_dim) ==
    IF ~Has(st.ds, dim) THEN [st EXCEPT !.raised = "KeyError"]
    ELSE IF ~(Len(st.ds.vars[dim].dims) = 1 /\ dim # new_dim) THEN st
    ELSE IF ~Has(st.ds, new_dim) THEN [st EXCEPT !.raised = "KeyError"]
    ELSE IF ~SameLength(st.ds, dim, new_dim) THEN st
    \* DataArray refuses data whose size is not that of the coordinate
    ELSE IF Len(st.ds.vars[dim].values) # Len(st.ds.vars[new_dim].values)
    THEN [st EXCEPT !.raised = "ValueError"]
    ELSE [st EXCEPT !.ds = Reindexed(@, dim, new_dim)]

RECURSIVE RenameLoop(_, _, _)
RenameLoop(st, dims, new_dim) ==
    IF dims = <<>> \/ st.raised # "none" THEN st
    ELSE RenameLoop(RenameOne(st, Head(dims), new_dim), Tail(dims), new_dim)

rename_0d_coords(d, new_dim) ==
    RenameLoop([ds |-> d, raised |-> "none"], SortedDims(d), new_dim)

(***************************************************************************)
(* _maybe_add_time_coord and attribute_to_time_variable                    *)
(***************************************************************************)
HasAttr(d, key) == \E a \in d.attrs : a[1] = key

Attr(d, key) == (CHOOSE a \in d.attrs : a[1] = key)[2]

\* pd.to_datetime(text, utc=True): the instant, as days since 1970-01-01, of
\* a date it can read, and a ValueError for a text that is no date
DateTexts == {"1970-01-01", "1970-01-02", "1970-01-03"}

ToDatetimeRaises(text) == IF text \in DateTexts THEN "none" ELSE "ValueError"

ToDatetime(text) ==
    CASE text = "1970-01-01" -> R(0)
      [] text = "1970-01-02" -> R(1)
      [] text = "1970-01-03" -> R(2)

\* the outcome of a call: the dataset, the exception, what the call read of
\* the dataset (touched) and the calls it made to attribute_to_time_variable
Outcome(d, exc, touched, inner) ==
    [ds |-> d, raised |-> exc, touched |-> touched, inner |-> inner]

attribute_to_time_variable(d, attr_name, variable_name, variable_dim) ==
    LET call == [variable_name |-> variable_name, variable_dim |-> variable_dim]
    IN
    IF ~HasAttr(d, attr_name)
    THEN Outcome(d, "KeyError", <<"attrs">>, <<call>>)
    ELSE IF ToDatetimeRaises(Attr(d, attr_name)) # "none"
    THEN Outcome(d, ToDatetimeRaises(Attr(d, attr_name)), <<"attrs", "to_datetime">>, <<call>>)
    ELSE
    LET time == <<ToDatetime(Attr(d, attr_name))>>
        read == <<"attrs", "to_datetime">>
    IN IF variable_dim = variable_name
       \* line 156 names coord_name, which this function does not define
       THEN Outcome(d, "NameError", read, <<call>>)
       ELSE IF ~Has(d, variable_dim)
       THEN Outcome(d, "KeyError", read, <<call>>)
       ELSE IF Len(d.vars[variable_dim].values) # Len(time)
       THEN Outcome(d, "ValueError", Append(read, variable_dim), <<call>>)
       ELSE LET set == SetItem(d, variable_name, time, <<variable_dim>>,
                               (variable_dim :> [values |-> d.vars[variable_dim].values,
                                                 attrs |-> d.vars[variable_dim].attrs]))
            IN Outcome(set.ds, set.raised, Append(read, variable_dim), <<call>>)

\* CoordIsDim with a fault: the test is inverted
CoordIsNoDim(d, coord_name) == coord_name \notin Dims(d)

\* line 128: coord_name in ds.dims
CoordIsDim(d, coord_name) == coord_name \in Dims(d)

maybe_add_time_coord(d, attr_name, coord_name, get_dim_from) ==
    IF CoordIsDim(d, coord_name) THEN Outcome(d, "none", <<>>, <<>>)
    ELSE IF ~Has(d, get_dim_from) THEN Outcome(d, "KeyError", <<get_dim_from>>, <<>>)
    ELSE LET newdims == d.vars[get_dim_from].dims
         IN IF Len(newdims) # 1
            THEN Outcome(d, "AssertionError", <<get_dim_from>>, <<>>)
            ELSE LET r == attribute_to_time_variable(d, attr_name, coord_name, newdims[1])
                 IN [r EXCEPT !.touched = <<get_dim_from>> \o @]

(***************************************************************************)
(* The datasets the renamer is run on, and its caller.                     *)
(***************************************************************************)
Units(u) == {<<"units", u>>}

RenameLayouts == {"indexed", "depth", "derived_time", "no_time"}

RenameCast(layout, nt, lats, xs) ==
    LET time == <<"time", Var(<<"time">>, RSeq([i \in 1..nt |-> 10 + i]), TRUE,
                              Units("days"))>>
        lat == <<"latitude", Var(<<"latitude">>, RSeq(lats), TRUE, Units("degN"))>>
        p == <<"pressure", Var(<<"pressure">>, RSeq(xs), TRUE, Units("dbar"))>>
        temp == <<"temp", DataVar(<<"pressure">>, Reverse(RSeq(xs)))>>
    IN CASE layout = "indexed" -> MakeDs(<<time, lat, p, temp>>)
         [] layout = "depth" ->
              MakeDs(<<time, lat, p,
                       <<"depth", Var(<<"pressure">>, Reverse(RSeq(xs)), TRUE, Units("m"))>>,
                       temp>>)
         [] layout = "derived_time" ->
              MakeDs(<<lat, p, <<"station", Coord("station", <<R(7)>>)>>, temp,
                       <<"time", DataVar(<<"station">>, <<R(11)>>)>> >>)
         [] layout = "no_time" -> MakeDs(<<lat, p, temp>>)

InitRename ==
    /\ pc = "rename"
    /\ \E layout \in RenameLayouts, nt \in 1..2, nl \in 1..2, xs \in PressureValues,
          new_dim \in {"time", "latitude"} :
         \E lats \in SeqsOver(0..MaxVal, nl) :
            /\ ds = RenameCast(layout, nt, lats, xs)
            /\ inp = [new_dim |-> new_dim]
    /\ raised = "none"
    /\ calls = <<>>
    /\ datasets = <<>>

\* ds = rename_0d_coords(ds, new_dim)
CallRename ==
    /\ pc = "rename"
    /\ calls = <<>>
    /\ LET r == rename_0d_coords(ds, inp.new_dim)
       IN /\ calls' = <<[fn |-> "rename_0d_coords", in |-> ds, out |-> r.ds,
                         raised |-> r.raised]>>
          /\ raised' = r.raised
          /\ ds' = IF r.raised = "none" THEN r.ds ELSE ds
    /\ UNCHANGED <<pc, inp, datasets>>

NextRename == CallRename

SpecRename == InitRename /\ [][NextRename]_vars

(***************************************************************************)
(* The datasets the time deriver is run on, and its callers.               *)
(***************************************************************************)
TimeLayouts == {"timed", "timed_no_station", "untimed", "untimed_cast",
                "two_stations", "station_2d", "no_station"}

AttrTexts == DateTexts \cup {"not a date"}

TimeCast(layout, xs, attrs) ==
    LET time == <<"time", Coord("time", <<R(11)>>)>>
        p == <<"pressure", Coord("pressure", RSeq(xs))>>
        temp == <<"temp", DataVar(<<"pressure">>, Reverse(RSeq(xs)))>>
        d == CASE layout = "timed" ->
                    MakeDs(<<time, p, <<"station", DataVar(<<"time">>, <<R(7)>>)>>, temp>>)
               [] layout = "timed_no_station" -> MakeDs(<<time, p, temp>>)
               [] layout = "untimed" ->
                    MakeDs(<<p, <<"station", Coord("station", <<R(7)>>)>>, temp>>)
               [] layout = "untimed_cast" ->
                    MakeDs(<<p, <<"cast", Coord("cast", <<R(3)>>)>>,
                             <<"station", DataVar(<<"cast">>, <<R(7)>>)>>, temp>>)
               [] layout = "two_stations" ->
                    MakeDs(<<p, <<"station", Coord("station", <<R(7), R(8)>>)>>, temp>>)
               [] layout = "station_2d" ->
                    MakeDs(<<p, <<"cast", Coord("cast", <<R(3)>>)>>,
                             <<"string", Coord("string", <<R(0)>>)>>,
                             <<"station", DataVar(<<"cast", "string">>, <<<<R(7)>>>>)>>,
                             temp>>)
               [] layout = "no_station" -> MakeDs(<<p, temp>>)
    IN [d EXCEPT !.attrs = attrs]

InitTime ==
    /\ pc = "time"
    /\ \E layout \in TimeLayouts, xs \in PressureValues,
          attrs \in {{}} \cup {{<<"Cast_start_UTC", t>>} : t \in AttrTexts},
          coord_name \in {"time", "station", "cast"} :
            /\ ds = TimeCast(layout, xs, attrs)
            /\ inp = [attr_name |-> "Cast_start_UTC", coord_name |-> coord_name,
                      get_dim_from |-> "station"]
    /\ raised = "none"
    /\ calls = <<>>
    /\ datasets = <<>>

Called(fn, d, r) ==
    [fn |-> fn, in |-> d, out |-> r.ds, raised |-> r.raised, touched |-> r.touched,
     inner |-> r.inner]

\* ds = _maybe_add_time_coord(ds, attr_name, coord_name, get_dim_from)
CallMaybeAddTimeCoord ==
    /\ pc = "time"
    /\ calls = <<>>
    /\ LET r == maybe_add_time_coord(ds, inp.attr_name, inp.coord_name, inp.get_dim_from)
       IN /\ calls' = <<Called("_maybe_add_time_coord", ds, r)>>
          /\ raised' = r.raised
          /\ ds' = IF r.raised = "none" THEN r.ds ELSE ds
    /\ UNCHANGED <<pc, inp, datasets>>

\* ds = attribute_to_time_variable(ds, attr_name, variable_name, variable_dim),
\* called directly
CallAttributeToTimeVariable(variable_name, variable_dim) ==
    /\ pc = "time"
    /\ calls = <<>>
    /\ LET r == attribute_to_time_variable(ds, inp.attr_name, variable_name, variable_dim)
       IN /\ calls' = <<Called("attribute_to_time_variable", ds, r)>>
          /\ raised' = r.raised
          /\ ds' = IF r.raised = "none" THEN r.ds ELSE ds
    /\ UNCHANGED <<pc, inp, datasets>>

NextTime ==
    \/ CallMaybeAddTimeCoord
    \/ \E variable_name \in {"time", "station"}, variable_dim \in {"time", "station"} :
          CallAttributeToTimeVariable(variable_name, variable_dim)

SpecTime == InitTime /\ [][NextTime]_vars

(***************************************************************************)
(* What the claims about the renamer speak of.                             *)
(***************************************************************************)
\* the one-dimensional coordinates of d other than new_dim
Coords1d(d, new_dim) ==
    {n \in Range(d.names) : d.vars[n].coord /\ Len(d.vars[n].dims) = 1 /\ n # new_dim}

\* n of the input is, in the output, a coordinate on new_dim with its values
ReindexedIn(c, n, new_dim) ==
    /\ Has(c.out, n)
    /\ c.out.vars[n].coord
    /\ c.out.vars[n].dims = <<new_dim>>
    /\ c.out.vars[n].values = c.in.vars[n].values

C6_EveryDimensionCoordinateReindexed ==
    \A i \in 1..Len(calls) :
        calls[i].raised = "none" =>
            \A n \in Coords1d(calls[i].in, inp.new_dim) \cap Dims(calls[i].in) :
                SameLength(calls[i].in, n, inp.new_dim) =>
                    ReindexedIn(calls[i], n, inp.new_dim)

C6_Witness ==
    /\ Len(calls) = 1
    /\ calls[1].raised = "none"
    /\ inp.new_dim = "time"
    /\ calls[1].in.vars["latitude"].dims = <<"latitude">>
    /\ calls[1].in.vars["latitude"].values = <<R(0), R(1)>>
    /\ calls[1].out.vars["latitude"].dims = <<"time">>
    /\ calls[1].out.vars["latitude"].values = <<R(0), R(1)>>
    /\ calls[1].out.vars["latitude"].coord

\* C7: after rename_0d_coords(ds, new_dim) returns, every coordinate whose
\* length is not that of new_dim is as it was (dimension, values, attributes),
\* and the mismatch raises nothing: the call raises only for a new_dim the
\* dataset does not hold.
C7_OtherLengthsUntouched ==
    \A i \in 1..Len(calls) :
        /\ calls[i].raised # "none" =>
              (calls[i].raised = "KeyError" /\ ~Has(calls[i].in, inp.new_dim))
        /\ (calls[i].raised = "none" /\ Has(calls[i].in, inp.new_dim)) =>
              \A n \in Range(calls[i].in.names) :
                 (calls[i].in.vars[n].coord /\ ~SameLength(calls[i].in, n, inp.new_dim)) =>
                    (Has(calls[i].out, n) /\ calls[i].out.vars[n] = calls[i].in.vars[n])

C7_Witness ==
    /\ Len(calls) = 1
    /\ calls[1].raised = "none"
    /\ inp.new_dim = "time"
    /\ Len(calls[1].in.vars["time"].values) = 1
    /\ calls[1].out.vars["latitude"].dims = <<"time">>
    /\ calls[1].in.vars["latitude"].dims = <<"latitude">>
    /\ Len(calls[1].in.vars["pressure"].values) = 2
    /\ calls[1].out.vars["pressure"] = calls[1].in.vars["pressure"]
    /\ calls[1].out.vars["pressure"].dims = <<"pressure">>

(***************************************************************************)
(* What the claims about the time deriver speak of.                        *)
(***************************************************************************)
\* C8: when coord_name is a dimension of the dataset, _maybe_add_time_coord
\* returns its input as it is, raises nothing, and reads neither the
\* attribute nor the reference variable.
C8_NoOpWhenTimeIsDimension ==
    \A i \in 1..Len(calls) :
        (calls[i].fn = "_maybe_add_time_coord" /\ inp.coord_name \in Dims(calls[i].in)) =>
            /\ calls[i].raised = "none"
            /\ calls[i].out = calls[i].in
            /\ calls[i].touched = <<>>
            /\ calls[i].inner = <<>>

C8_Witness ==
    /\ Len(calls) = 1
    /\ calls[1].fn = "_maybe_add_time_coord"
    /\ inp.coord_name \in Dims(calls[1].in)
    /\ ~Has(calls[1].in, inp.get_dim_from)
    /\ calls[1].in.attrs = {<<"Cast_start_UTC", "not a date">>}
    /\ calls[1].raised = "none"

\* C10: every call _maybe_add_time_coord makes to attribute_to_time_variable
\* passes a variable_dim other than variable_name, so the branch of line 156
\* is not taken and its NameError is not raised.
C10_SameNameBranchUnreachable ==
    \A i \in 1..Len(calls) :
        calls[i].fn = "_maybe_add_time_coord" =>
            /\ calls[i].raised # "NameError"
            /\ \A k \in 1..Len(calls[i].inner) :
                  calls[i].inner[k].variable_dim # calls[i].inner[k].variable_name

C10_Witness ==
    /\ Len(calls) = 1
    /\ calls[1].fn = "_maybe_add_time_coord"
    /\ calls[1].inner = <<[variable_name |-> "time", variable_dim |-> "station"]>>
    /\ calls[1].raised = "none"
    /\ Has(calls[1].out, "time")
    /\ calls[1].out.vars["time"].dims = <<"station">>
    /\ calls[1].out.vars["time"].values = <<R(1)>>

\* called directly with variable_dim = variable_name, attribute_to_time_variable
\* takes the branch and raises
SameNameBranchTakenDirectly ==
    /\ Len(calls) = 1
    /\ calls[1].fn = "attribute_to_time_variable"
    /\ calls[1].raised = "NameError"

(***************************************************************************)
(* compose, and the functions it is handed: functools.partial objects, a   *)
(* function's name with the keyword arguments bound to it.                 *)
(***************************************************************************)
Partial(name, kw) == [name |-> name, kw |-> kw]

NoKw == [none |-> TRUE]

IntFunctions == {Partial("succ", NoKw), Partial("double", NoKw), Partial("negate", NoKw)}

\* a stage of the pipeline run on a dataset, with the defaults of the
\* keyword arguments that are not bound
RunStage(f, d) ==
    CASE f.name = "_maybe_add_time_coord" ->
            maybe_add_time_coord(d, "Cast_start_UTC", "time", "station")
      [] f.name = "rename_0d_coords" -> rename_0d_coords(d, f.kw.new_dim)
      [] f.name = "interp_coordinate" ->
            interp_coordinate(d, f.kw.interp_coord, f.kw.interp_data, TRUE,
                              DefaultSuffix, DefaultKwargs)

\* what stage f, given x, hands on when it returned or raised r
Staged(f, x, r) ==
    [ds |-> r.ds, raised |-> r.raised,
     stages |-> Append(x.stages, [fn |-> f.name, in |-> x.ds, out |-> r.ds,
                                  raised |-> r.raised])]

\* f(x).  A dataset travels through the pipeline as [ds, raised, stages]:
\* stages lists the stages run so far with what each was given and returned,
\* and once a stage has raised no later function is called.
Call(f, x) ==
    CASE f.name = "succ" -> x + 1
      [] f.name = "double" -> 2 * x
      [] f.name = "negate" -> 0 - x
      [] OTHER ->
            IF x.raised # "none" THEN x ELSE Staged(f, x, RunStage(f, x.ds))

\* compose with a fault: the functions are applied in the order given
RECURSIVE composeLeftToRight(_, _)
composeLeftToRight(functions, x) ==
    IF functions = <<>> THEN x
    ELSE composeLeftToRight(Tail(functions), Call(Head(functions), x))

\* compose(*functions)(x).  reduce folds the functions from the left into
\* acc_k = lambda x: acc_(k-1)(f_k(x)), starting from the identity: the
\* composed function hands f_n(x) to the composition of the functions before
RECURSIVE compose(_, _)
compose(functions, x) ==
    IF functions = <<>> THEN x
    ELSE compose(SubSeq(functions, 1, Len(functions) - 1),
                 Call(functions[Len(functions)], x))

InitCompose ==
    /\ pc = "compose"
    /\ \E n \in 0..MaxFunctions, x \in (0 - MaxArg)..MaxArg :
         \E functions \in SeqsOver(IntFunctions, n) :
            /\ inp = [functions |-> functions, x |-> x]
            /\ ds = x
    /\ raised = "none"
    /\ calls = <<>>
    /\ datasets = <<>>

\* ds = compose(*functions)(x)
CallCompose ==
    /\ pc = "compose"
    /\ calls = <<>>
    /\ LET y == compose(inp.functions, inp.x)
       IN /\ calls' = <<[fn |-> "compose", functions |-> inp.functions, in |-> inp.x,
                         out |-> y]>>
          /\ ds' = y
    /\ UNCHANGED <<pc, inp, raised, datasets>>

NextCompose == CallCompose

SpecCompose == InitCompose /\ [][NextCompose]_vars

\* f1(f2(...fn(x)...))
RECURSIVE Nested(_, _)
Nested(functions, x) ==
    IF functions = <<>> THEN x ELSE Call(Head(functions), Nested(Tail(functions), x))

\* C1: compose(f1, ..., fn)(x) = f1(f2(...fn(x)...)) for every sequence of
\* functions and every x: the last function is applied first, and with no
\* function the result is x.
C1_ComposeAppliesLastFirst ==
    \A i \in 1..Len(calls) :
        /\ calls[i].out = Nested(calls[i].functions, calls[i].in)
        /\ calls[i].functions = <<>> => calls[i].out = calls[i].in

C1_Witness ==
    /\ Len(calls) = 1
    /\ calls[1].functions = <<Partial("succ", NoKw), Partial("double", NoKw)>>
    /\ calls[1].in = 1
    /\ calls[1].out = 3

(***************************************************************************)
(* open_cchdo_as_mfdataset                                                 *)
(***************************************************************************)
timefun == Partial("_maybe_add_time_coord", NoKw)

interpfun(pressure_coord, target_pressure) ==
    Partial("interp_coordinate",
            [interp_coord |-> pressure_coord, interp_data |-> target_pressure])

renamefun(concat_dim) == Partial("rename_0d_coords", [new_dim |-> concat_dim])

Fresh(d) == [ds |-> d, raised |-> "none", stages |-> <<>>]

\* ppfun with a fault: the stages are handed to compose in the order they
\* are to run in
ppfunInRunningOrder(d, target_pressure, pressure_coord, concat_dim) ==
    compose(<<timefun, renamefun(concat_dim),
              interpfun(pressure_coord, target_pressure)>>, Fresh(d))

\* lines 31-39: ppfun(ds)
ppfun(d, target_pressure, pressure_coord, concat_dim) ==
    compose(<<interpfun(pressure_coord, target_pressure), renamefun(concat_dim),
              timefun>>, Fresh(d))

\* xarray's concatenation of datasets that hold the same variables: what
\* lies along dim is joined end to end, a data variable that does not is
\* stacked along dim, and any other coordinate must agree
SameVariables(dsets) ==
    \A i \in 1..Len(dsets) : Range(dsets[i].names) = Range(dsets[1].names)

RECURSIVE Flatten(_)
Flatten(ss) == IF ss = <<>> THEN <<>> ELSE Head(ss) \o Flatten(Tail(ss))

ConcatVar(dsets, n, dim) ==
    LET first == dsets[1].vars[n]
        all == [i \in 1..Len(dsets) |-> dsets[i].vars[n].values]
    IN IF first.dims = <<dim>> THEN [first EXCEPT !.values = Flatten(all)]
       ELSE IF first.coord THEN first
       ELSE [first EXCEPT !.dims = <<dim>> \o @, !.values = all]

ConcatRaises(dsets, dim) ==
    IF ~SameVariables(dsets) THEN "ValueError"
    ELSE IF \E i \in 1..Len(dsets) : dim \notin Dims(dsets[i]) THEN "ValueError"
    ELSE IF \E i \in 1..Len(dsets), n \in Range(dsets[1].names) :
               /\ dsets[1].vars[n].coord
               /\ dim \notin Range(dsets[1].vars[n].dims)
               /\ dsets[i].vars[n] # dsets[1].vars[n]
    THEN "ValueError"
    ELSE "none"

Concat(dsets, dim) ==
    [dsets[1] EXCEPT !.vars = [n \in DOMAIN @ |-> ConcatVar(dsets, n, dim)]]

\* AfterPreprocess with a fault: a dataset the pipeline raised for is left
\* as it was opened and the error is dropped
AfterPreprocessSwallowing(dsets, k, r) ==
    [pc |-> "open", raised |-> "none",
     datasets |-> IF r.raised = "none" THEN [dsets EXCEPT ![k] = r.ds] ELSE dsets]

\* line 41, preprocess=ppfun: open_mfdataset puts what ppfun returned for
\* dataset k in its place, and an exception of ppfun ends the call
AfterPreprocess(dsets, k, r) ==
    IF r.raised = "none"
    THEN [pc |-> "open", raised |-> "none", datasets |-> [dsets EXCEPT ![k] = r.ds]]
    ELSE [pc |-> "raised", raised |-> r.raised, datasets |-> <<>>]

\* the files: one that cannot be opened, or a cast of one of these kinds
FileKinds == {"timed", "untimed", "bad_date", "no_station", "no_pressure", "unreadable"}

DateOf(day) == CASE day = 0 -> "1970-01-01" [] day = 1 -> "1970-01-02"
                 [] OTHER -> "1970-01-03"

File(kind, k) ==
    LET day == (k - 1) % 3
        xs == <<0, MaxCoord>>
        p == <<"pressure", Coord("pressure", RSeq(xs))>>
        temp == <<"temp", DataVar(<<"pressure">>, <<R(k), R(0)>>)>>
        station == <<"station", Coord("station", <<R(k)>>)>>
        time == <<"time", Coord("time", <<R(day)>>)>>
        on_time == <<"station", Var(<<"time">>, <<R(k)>>, TRUE, {})>>
        date == {<<"Cast_start_UTC", DateOf(day)>>}
        d == CASE kind = "timed" -> MakeDs(<<time, p, on_time, temp>>)
               [] kind = "untimed" -> MakeDs(<<p, station, temp>>)
               [] kind = "bad_date" -> MakeDs(<<p, station, temp>>)
               [] kind = "no_station" -> MakeDs(<<p, temp>>)
               [] kind = "no_pressure" -> MakeDs(<<time, on_time>>)
               [] kind = "unreadable" -> EmptyDs
    IN [openable |-> kind # "unreadable",
        content |-> [d EXCEPT !.attrs = IF kind = "bad_date"
                                        THEN {<<"Cast_start_UTC", "not a date">>}
                                        ELSE date]]

InitOpen ==
    /\ pc = "open"
    /\ \E n \in 0..MaxFiles, target_pressure \in TargetValues :
         \E kinds \in SeqsOver(FileKinds, n) :
            inp = [paths |-> [k \in 1..n |-> File(kinds[k], k)],
                   target_pressure |-> RSeq(target_pressure),
                   pressure_coord |-> "pressure",
                   concat_dim |-> "time"]
    /\ ds = EmptyDs
    /\ raised = "none"
    /\ calls = <<>>
    /\ datasets = <<>>

\* open_mfdataset: no path at all
NoFiles ==
    /\ pc = "open"
    /\ inp.paths = <<>>
    /\ pc' = "raised"
    /\ raised' = "IOError"
    /\ UNCHANGED <<inp, ds, calls, datasets>>

\* open_mfdataset: the next file is opened
OpenDataset ==
    /\ pc = "open"
    /\ Len(datasets) < Len(inp.paths)
    /\ LET f == inp.paths[Len(datasets) + 1]
       IN IF f.openable
          THEN /\ datasets' = Append(datasets, f.content)
               /\ UNCHANGED <<pc, raised>>
          ELSE /\ pc' = "raised"
               /\ raised' = "IOError"
               /\ datasets' = <<>>
    /\ UNCHANGED <<inp, ds, calls>>

\* open_mfdataset: every file is open, and ppfun is run on the next dataset
Preprocess ==
    /\ pc = "open"
    /\ inp.paths # <<>>
    /\ Len(datasets) = Len(inp.paths)
    /\ Len(calls) < Len(inp.paths)
    /\ \E k \in {Len(calls) + 1} :
         \E r \in {ppfun(datasets[k], inp.target_pressure, inp.pressure_coord,
                         inp.concat_dim)} :
            \E next \in {AfterPreprocess(datasets, k, r)} :
               /\ calls' = Append(calls, [fn |-> "ppfun", in |-> datasets[k],
                                          out |-> r.ds, raised |-> r.raised,
                                          stages |-> r.stages])
               /\ pc' = next.pc
               /\ raised' = next.raised
               /\ datasets' = next.datasets
    /\ UNCHANGED <<inp, ds>>

\* open_mfdataset: the datasets are combined along concat_dim and returned
Combine ==
    /\ pc = "open"
    /\ inp.paths # <<>>
    /\ Len(datasets) = Len(inp.paths)
    /\ Len(calls) = Len(inp.paths)
    /\ LET bad == ConcatRaises(datasets, inp.concat_dim)
       IN IF bad = "none"
          THEN /\ ds' = Concat(datasets, inp.concat_dim)
               /\ pc' = "returned"
               /\ UNCHANGED raised
          ELSE /\ pc' = "raised"
               /\ raised' = bad
               /\ UNCHANGED ds
    /\ UNCHANGED <<inp, calls, datasets>>

NextOpen == NoFiles \/ OpenDataset \/ Preprocess \/ Combine

SpecOpen == InitOpen /\ [][NextOpen]_vars

(***************************************************************************)
(* The claims about open_cchdo_as_mfdataset                                *)
(***************************************************************************)
StageOrder == <<"_maybe_add_time_coord", "rename_0d_coords", "interp_coordinate">>

\* what the stage named fn returns or raises for dataset d under the
\* arguments of the call of open_cchdo_as_mfdataset
StageAlone(fn, d) ==
    CASE fn = "_maybe_add_time_coord" ->
            maybe_add_time_coord(d, "Cast_start_UTC", "time", "station")
      [] fn = "rename_0d_coords" -> rename_0d_coords(d, inp.concat_dim)
      [] fn = "interp_coordinate" ->
            interp_coordinate(d, inp.pressure_coord, inp.target_pressure, TRUE,
                              DefaultSuffix, DefaultKwargs)

\* C2: for every file ppfun runs the time deriver, then the renamer bound
\* to concat_dim, then the interpolator bound to pressure_coord and
\* target_pressure: the stages that ran are the first ones of that order,
\* the first is given the file's dataset and each later one the dataset the
\* stage before it returned, all three run unless one raises, and ppfun
\* returns what the last one returned.
C2_StagesRunTimeRenameInterp ==
    \A i \in 1..Len(calls) :
        LET st == calls[i].stages
        IN /\ Len(st) \in 1..3
           /\ \A j \in 1..Len(st) :
                 /\ st[j].fn = StageOrder[j]
                 /\ st[j].in = IF j = 1 THEN calls[i].in ELSE st[j - 1].out
                 /\ st[j].out = StageAlone(st[j].fn, st[j].in).ds
                 /\ st[j].raised = StageAlone(st[j].fn, st[j].in).raised
                 /\ j < Len(st) => st[j].raised = "none"
           /\ st[Len(st)].raised = "none" => Len(st) = 3
           /\ calls[i].out = st[Len(st)].out
           /\ calls[i].raised = st[Len(st)].raised

\* a file without a time coordinate went through the three stages, and each
\* of them changed the dataset
C2_Witness ==
    /\ Len(calls) >= 1
    /\ Len(calls[1].stages) = 3
    /\ calls[1].raised = "none"
    /\ \A j \in 1..3 : calls[1].stages[j].in # calls[1].stages[j].out
    /\ ~Has(calls[1].in, "time")
    /\ Has(calls[1].out, "time") /\ Has(calls[1].out, "temp_i")

RECURSIVE PipelineError(_, _)
\* the error of the first of the stages fns that raises for d run through
\* them in turn, "none" when none does
PipelineError(fns, d) ==
    IF fns = <<>> THEN "none"
    ELSE IF StageAlone(Head(fns), d).raised # "none"
         THEN StageAlone(Head(fns), d).raised
         ELSE PipelineError(Tail(fns), StageAlone(Head(fns), d).ds)

\* the error file k fails with on its own, "none" when it opens and passes
\* through the three stages
FileError(k) ==
    IF ~inp.paths[k].openable THEN "IOError"
    ELSE PipelineError(StageOrder, inp.paths[k].content)

Failing == {k \in 1..Len(inp.paths) : FileError(k) # "none"}

\* C9: open_cchdo_as_mfdataset is all-or-nothing.  When a file cannot be
\* opened or a stage raises for a file, the call never returns: once it has
\* ended it has raised the error of a failing file and there is no dataset.
\* A dataset that is returned is built from every file, one entry along
\* concat_dim for each file, in the order of the files.
C9_AllOrNothing ==
    /\ pc = "returned" =>
          /\ Failing = {}
          /\ Len(datasets) = Len(inp.paths)
          /\ ds.vars[inp.concat_dim].values =
                Flatten([k \in 1..Len(inp.paths) |->
                            datasets[k].vars[inp.concat_dim].values])
          /\ \A k \in 1..Len(inp.paths) :
                datasets[k] = ppfun(inp.paths[k].content, inp.target_pressure,
                                    inp.pressure_coord, inp.concat_dim).ds
    /\ Failing # {} =>
          /\ ds = EmptyDs
          /\ pc = "raised" => raised \in {FileError(k) : k \in Failing}
          /\ ~ENABLED Combine

\* the second of two files fails in the pipeline and the call has raised
\* its error
C9_Witness ==
    /\ pc = "raised"
    /\ Len(inp.paths) = 2
    /\ Failing = {2}
    /\ inp.paths[2].openable
    /\ Len(calls) = 2
    /\ raised = calls[2].raised
    /\ ds = EmptyDs

\* two files were opened, preprocessed and combined
C9_ReturnedWitness ==
    /\ pc = "returned"
    /\ Len(inp.paths) = 2
    /\ Len(ds.vars["time"].values) = 2

====
